---- MODULE Spec2Model ----
(***************************************************************************)
(* rcm_nexus.session: the Session helper around the requests HTTP client.  *)
(*                                                                         *)
(* The caller is sequential: the state describes the Session object and    *)
(* the operation most recently started on it (its arguments, the response  *)
(* it received, what it printed, how it ended).  get/post/put and          *)
(* _combine_headers run to completion in one step.  stream_remote is a     *)
(* generator: creating it runs no code, each next() runs it up to the next *)
(* yield or to its end, and close() raises GeneratorExit at the yield.     *)
(* The caller takes the result of one operation before it starts the next. *)
(***************************************************************************)
EXTENDS Integers, Sequences, FiniteSets, TLC

VARIABLES
    config,     \* self.config: url, username, password, ssl_verify
    debug,      \* self.debug
    auth,       \* self.auth: HTTPBasicAuth or None
    heap,       \* the dict objects: self.headers, the caller's dict, the merged dict
    call,       \* the operation most recently started and its arguments
    response,   \* the response object that operation received
    outcome,    \* how the operation ended: what it returned or raised
    stderr,     \* the lines the operation printed on sys.stderr
    stdout,     \* the lines the operation printed on sys.stdout (debug mode)
    gen,        \* the stream_remote generator: none/created/suspended/finished/raised/closed
    conn,       \* the streaming connection: none/open/closed
    pending,    \* body bytes of the streamed response not yet delivered by the transport
    yielded     \* the chunks the generator has yielded so far

vars == <<config, debug, auth, heap, call, response, outcome, stderr, stdout,
          gen, conn, pending, yielded>>

\* ---------------------------------------------------------------- bounds

\* Longest streamed response body, in bytes.
MaxBody == 3

\* ---------------------------------------------------------------- values

None == "None"

Usernames == {None, "jdoe"}

\* Status codes a server can put on the status line (three digits).  200/201/204
\* are below 400; 401, 403, 404, 500 are the 4xx/5xx codes the code tests for;
\* 600 is a non-standard code that the client library accepts.
Statuses == {200, 201, 204, 401, 403, 404, 500, 600}

ExpectStatuses == {200, 201, 401, 404}

Texts == {"", "<data/>"}

Bytes == {"a", "b"}

RECURSIVE SeqsUpTo(_, _)
SeqsUpTo(S, n) ==
    IF n = 0 THEN {<<>>}
    ELSE LET shorter == SeqsUpTo(S, n - 1)
         IN  shorter \cup {Append(s, x) : s \in {t \in shorter : Len(t) = n - 1}, x \in S}

Bodies == SeqsUpTo(Bytes, MaxBody)

\* A Content-Type header value as a sequence of tokens; <<>> is the "" that
\* response.headers.get("Content-Type", "") gives when the header is missing.
ContentTypes ==
    { <<>>, <<"application/xml">>, <<"application/json", "; charset=UTF-8">> }

JsonPrefix == <<"application/json">>

\* What response.json() gives: a document with an "errors" list, a document
\* without one, or a body that is no JSON at all.
ErrorMsgs == <<"msg1", "msg2">>
JsonBodies == {"errors", "no_errors_key", "invalid"}

\* ---------------------------------------------------------------- dicts

\* The absent dict (Python None where a dict is optional, or a slot not allocated).
NoDict == [k \in {"<none>"} |-> "<none>"]

DictsOver(K, V) == UNION { [D -> V] : D \in SUBSET K }

\* Per-call header arguments: None, {} and overlays that reuse a default key,
\* add a new key, or both.
CallHeaders == {NoDict} \cup DictsOver({"Accept", "X-Nexus-UI"}, {"application/json"})

\* Caller-supplied existing_headers arguments of _combine_headers.
ExistingHeaders == DictsOver({"Accept"}, {"application/json"})

Refs == {"self", "arg", "result"}

\* ---------------------------------------------------------------- records

NoCall ==
    [op |-> "none", path |-> "", headers |-> NoDict, existing |-> None, expect_status |-> 0,
     ignore_404 |-> FALSE, fail |-> FALSE, h |-> None]

NoResponse ==
    [method |-> "", status_code |-> 0, text |-> "", content |-> <<>>,
     content_type |-> <<>>, json |-> "invalid"]

\* The responses a server can give: `text` is response.text (what get/post/put
\* return), `content` the body bytes a streamed response delivers.  `json` is
\* only looked at when the content type says JSON.
Responses(method, texts, contents) ==
    { r \in [method : {method}, status_code : Statuses, text : texts,
             content : contents, content_type : ContentTypes, json : JsonBodies] :
        r.content_type # <<"application/json", "; charset=UTF-8">> => r.json = "invalid" }

Pending == [kind |-> "pending", exc |-> None, body |-> None]
Return(body) == [kind |-> "return", exc |-> None, body |-> body]
Raise(exc) == [kind |-> "raise", exc |-> exc, body |-> None]

Line(kind, method, path, status, user, msg) ==
    [kind |-> kind, method |-> method, path |-> path, status |-> status,
     user |-> user, msg |-> msg]

NoAuth == [present |-> FALSE, username |-> "", password |-> ""]
HTTPBasicAuth(username, password) ==
    [present |-> TRUE, username |-> username, password |-> password]

\* ---------------------------------------------------------------- helpers

\* str.startswith on token sequences.
StartsWith(s, prefix) ==
    /\ Len(s) >= Len(prefix)
    /\ SubSeq(s, 1, Len(prefix)) = prefix

\* dict.update semantics on values: other's entries win.
Overlay(base, other) ==
    [k \in (DOMAIN base) \cup (DOMAIN other) |->
        IF k \in DOMAIN other THEN other[k] ELSE base[k]]

\* The same with the preference reversed (entries already present win).
dict_update_keep(hp, ref, other) ==
    [hp EXCEPT ![ref] = Overlay(other, @)]

\* result.update(headers): mutates the object `ref` points to.
dict_update(hp, ref, other) ==
    [hp EXCEPT ![ref] = Overlay(@, other)]

\* No copy: the result is the very object passed in.
dict_alias(hp, src) ==
    [ref |-> src, heap |-> hp]

\* dict(existing_headers): a new object holding the entries of `src`.
dict_copy(hp, src) ==
    [ref |-> "result", heap |-> [hp EXCEPT !["result"] = hp[src]]]

\* A fresh call frame: the caller's existing_headers dict (or none) and no
\* merged dict yet.  self.headers lives on.
Frame(hp, existing) ==
    [hp EXCEPT !["arg"] = existing, !["result"] = NoDict]

\* Session._combine_headers(headers, existing_headers): `existing` is a
\* reference ("arg") or None.  Gives the reference returned and the heap after.
combine_headers(hp, headers, existing) ==
    LET src == IF existing = None THEN "self" ELSE existing
        c   == dict_copy(hp, src)
    IN  IF headers # NoDict
        THEN [ref |-> c.ref, heap |-> dict_update(c.heap, c.ref, headers)]
        ELSE c

\* requests.Response.raise_for_status: raises HTTPError for 4xx and 5xx only.
raise_for_status(status_code) ==
    \/ (400 <= status_code /\ status_code < 500)
    \/ (500 <= status_code /\ status_code < 600)

\* Session._handle_error(response, path, fail), statement by statement.  An
\* exception ends it where it is raised, with the lines printed until then.
handle_error(self_auth, resp, path, fail) ==
    LET l1 == << Line("failed", resp.method, path, resp.status_code, "", "") >>
        l2 == IF resp.status_code = 401
              THEN Append(l1, Line("credentials", "", "", 0, self_auth.username, ""))
              ELSE l1
        l3 == IF resp.status_code = 403
              THEN Append(l2, Line("permissions", "", "", 0, "", ""))
              ELSE l2
        isJson == StartsWith(resp.content_type, JsonPrefix)
        l4 == IF isJson /\ resp.json = "errors"
              THEN l3 \o [i \in 1..Len(ErrorMsgs) |-> Line("msg", "", "", 0, "", ErrorMsgs[i])]
              ELSE l3
    IN  IF resp.status_code = 401 /\ ~self_auth.present
        THEN [stderr |-> l1, outcome |-> Raise("AttributeError")]
        ELSE IF isJson /\ resp.json = "invalid"
        THEN [stderr |-> l3, outcome |-> Raise("ValueError")]
        ELSE IF isJson /\ resp.json = "no_errors_key"
        THEN [stderr |-> l3, outcome |-> Raise("KeyError")]
        ELSE IF fail /\ raise_for_status(resp.status_code)
        THEN [stderr |-> l4, outcome |-> Raise("HTTPError")]
        ELSE [stderr |-> l4, outcome |-> Return(None)]

\* The status test with the ignore_404 branch left out.
classify_no_ignore(status_code, expect_status, ignore_404) ==
    IF status_code = expect_status THEN "expected" ELSE "error"

\* The status test with the 404 test ahead of the expect_status test.
classify_404_first(status_code, expect_status, ignore_404) ==
    IF status_code = 404 THEN (IF ignore_404 THEN "ignored" ELSE "error")
    ELSE IF status_code = expect_status THEN "expected"
    ELSE "error"

\* The if/elif/else that ends get, post and put.
classify(status_code, expect_status, ignore_404) ==
    IF status_code = expect_status THEN "expected"
    ELSE IF ignore_404 /\ status_code = 404 THEN "ignored"
    ELSE "error"

\* What get/post/put do with the response: (response, response.text) on the
\* two success branches, _handle_error otherwise.
finish(self_auth, resp, path, expect_status, ignore_404, fail) ==
    IF classify(resp.status_code, expect_status, ignore_404) \in {"expected", "ignored"}
    THEN [stderr |-> <<>>, outcome |-> Return(resp.text)]
    ELSE handle_error(self_auth, resp, path, fail)

\* The debug prints of get/post/put before the request is sent ...
debug_request(dbg, method) ==
    IF ~dbg THEN <<>>
    ELSE IF method = "GET" THEN <<"request">>
    ELSE <<"request", "request body">>

\* ... and after the response has arrived.
debug_response(dbg) ==
    IF dbg THEN <<"response">> ELSE <<>>

\* ---------------------------------------------------------------- inputs

Paths == {"/service/local/status"}
Urls == {"http://nexus.example.com/content/a.jar"}

\* ---------------------------------------------------------------- Session

DefaultHeaders ==
    [k \in {"Accept", "Content-Type"} |-> "application/xml"]

\* Session.__init__(config, debug)
Init ==
    /\ \E u \in Usernames :
         /\ config = [url |-> "http://nexus.example.com", username |-> u,
                      password |-> "secret", ssl_verify |-> TRUE]
         /\ auth = IF u # None THEN HTTPBasicAuth(u, "secret") ELSE NoAuth
    /\ debug \in BOOLEAN
    /\ heap = [r \in Refs |-> IF r = "self" THEN DefaultHeaders ELSE NoDict]
    /\ call = NoCall
    /\ response = NoResponse
    /\ outcome = Pending
    /\ stderr = <<>>
    /\ stdout = <<>>
    /\ gen = "none"
    /\ conn = "none"
    /\ pending = <<>>
    /\ yielded = <<>>

\* No operation is in hand: the caller can start one.
Idle == call.op = "none"

NoStream ==
    /\ gen' = "none"
    /\ conn' = "none"
    /\ pending' = <<>>
    /\ yielded' = <<>>

\* The body shared by get, post and put: merge the headers, send the request,
\* classify the response.  requests.<method>() either raises a transport error
\* or returns a response.
Request(op, method, path, headers, expect_status, ignore_404, fail) ==
    LET c == combine_headers(Frame(heap, NoDict), headers, None)
    IN  /\ heap' = c.heap
        /\ call' = [op |-> op, path |-> path, headers |-> headers, existing |-> None,
                    expect_status |-> expect_status, ignore_404 |-> ignore_404,
                    fail |-> fail, h |-> c.ref]
        /\ \/ /\ response' = NoResponse
              /\ outcome' = Raise("ConnectionError")
              /\ stderr' = <<>>
              /\ stdout' = debug_request(debug, method)
           \/ \E r \in Responses(method, Texts, {<<>>}) :
                LET f == finish(auth, r, path, expect_status, ignore_404, fail)
                IN  /\ response' = r
                    /\ outcome' = f.outcome
                    /\ stderr' = f.stderr
                    /\ stdout' = debug_request(debug, method) \o debug_response(debug)
        /\ NoStream
        /\ UNCHANGED <<config, debug, auth>>

\* Session.get(path, headers, expect_status, ignore_404, fail)
Get ==
    /\ Idle
    /\ \E path \in Paths, headers \in CallHeaders, expect_status \in ExpectStatuses,
          ignore_404 \in BOOLEAN, fail \in BOOLEAN :
           Request("get", "GET", path, headers, expect_status, ignore_404, fail)

\* Session.post(path, body, headers, expect_status, ignore_404, fail)
Post ==
    /\ Idle
    /\ \E path \in Paths, headers \in CallHeaders, expect_status \in ExpectStatuses,
          ignore_404 \in BOOLEAN, fail \in BOOLEAN :
           Request("post", "POST", path, headers, expect_status, ignore_404, fail)

\* Session.put(path, body, headers, expect_status, ignore_404, fail)
Put ==
    /\ Idle
    /\ \E path \in Paths, headers \in CallHeaders, expect_status \in ExpectStatuses,
          ignore_404 \in BOOLEAN, fail \in BOOLEAN :
           Request("put", "PUT", path, headers, expect_status, ignore_404, fail)

\* A direct call of Session._combine_headers(headers, existing_headers).
CombineHeaders ==
    \E headers \in CallHeaders, existing \in {NoDict} \cup ExistingHeaders :
        LET ref == IF existing = NoDict THEN None ELSE "arg"
            c   == combine_headers(Frame(heap, existing), headers, ref)
        IN  /\ Idle
            /\ heap' = c.heap
            /\ call' = [NoCall EXCEPT !.op = "_combine_headers", !.headers = headers,
                                      !.existing = ref, !.h = c.ref]
            /\ response' = NoResponse
            /\ outcome' = Return(None)
            /\ stderr' = <<>>
            /\ stdout' = <<>>
            /\ NoStream
            /\ UNCHANGED <<config, debug, auth>>

\* ---------------------------------------------------------------- stream_remote

StreamResponses == Responses("GET", {""}, Bodies)

\* Leaving the with block without closing the response.
with_exit_leak(c) == c

\* Leaving `with requests.get(...) as resp` on any path (end of block,
\* exception, GeneratorExit): Response.__exit__ closes the connection.
with_exit(c) == "closed"

\* The two status tests in the opposite order.
stream_check_error_first(status_code) ==
    IF status_code >= 400 THEN "error"
    ELSE IF status_code = 404 THEN "not_found"
    ELSE "ok"

\* The two status tests at the top of the with block.
stream_check(status_code) ==
    IF status_code = 404 THEN "not_found"
    ELSE IF status_code >= 400 THEN "error"
    ELSE "ok"

\* A transport read that loses the byte following the chunk.
iter_content_drop(data, n) ==
    [chunk |-> SubSeq(data, 1, n), rest |-> SubSeq(data, n + 2, Len(data))]

\* resp.iter_content(None) on a streamed response: the next chunk is whatever
\* the transport has received, here the first n bytes of what is left.
iter_content(data, n) ==
    [chunk |-> SubSeq(data, 1, n), rest |-> SubSeq(data, n + 1, Len(data))]

\* One turn of `for chunk in resp.iter_content(None): yield chunk` with `data`
\* still to come: yield the next chunk, end the loop and leave the with
\* block, or fail in the transport.
Iterate(data) ==
    \/ /\ data = <<>>
       /\ gen' = "finished"
       /\ conn' = with_exit("open")
       /\ outcome' = Return(None)
       /\ pending' = data
       /\ yielded' = yielded
    \/ \E n \in 1..Len(data) :
         LET it == iter_content(data, n)
         IN  /\ gen' = "suspended"
             /\ conn' = "open"
             /\ outcome' = Pending
             /\ pending' = it.rest
             /\ yielded' = Append(yielded, it.chunk)
    \/ /\ gen' = "raised"
       /\ conn' = with_exit("open")
       /\ outcome' = Raise("ChunkedEncodingError")
       /\ pending' = data
       /\ yielded' = yielded

\* Session.stream_remote(url): calling it only creates the generator.
StreamRemote ==
    \E url \in Urls :
        /\ Idle
        /\ heap' = Frame(heap, NoDict)
        /\ call' = [NoCall EXCEPT !.op = "stream_remote", !.path = url]
        /\ response' = NoResponse
        /\ outcome' = Pending
        /\ stderr' = <<>>
        /\ stdout' = <<>>
        /\ gen' = "created"
        /\ conn' = "none"
        /\ pending' = <<>>
        /\ yielded' = <<>>
        /\ UNCHANGED <<config, debug, auth>>

\* The first next(): the body of stream_remote from its top to the first
\* yield, or to the exception or the end that comes before one.
GeneratorStart ==
    /\ gen = "created"
    /\ \/ /\ response' = NoResponse            \* requests.get raises
          /\ gen' = "raised"
          /\ conn' = conn
          /\ outcome' = Raise("ConnectionError")
          /\ stderr' = <<>>
          /\ pending' = <<>>
          /\ yielded' = yielded
       \/ \E r \in StreamResponses :
            LET chk == stream_check(r.status_code)
                he  == handle_error(auth, r, call.path, TRUE)
            IN  /\ response' = r
                /\ IF chk = "not_found"
                   THEN /\ gen' = "raised"
                        /\ conn' = with_exit("open")
                        /\ outcome' = Raise("FileNotFoundError")
                        /\ stderr' = <<>>
                        /\ pending' = r.content
                        /\ yielded' = yielded
                   ELSE IF chk = "error" /\ he.outcome.kind = "raise"
                   THEN /\ gen' = "raised"
                        /\ conn' = with_exit("open")
                        /\ outcome' = he.outcome
                        /\ stderr' = he.stderr
                        /\ pending' = r.content
                        /\ yielded' = yielded
                   ELSE /\ stderr' = (IF chk = "error" THEN he.stderr ELSE <<>>)
                        /\ Iterate(r.content)
    /\ UNCHANGED <<config, debug, auth, heap, call, stdout>>

\* A later next(): resume after the yield.
GeneratorResume ==
    /\ gen = "suspended"
    /\ Iterate(pending)
    /\ UNCHANGED <<config, debug, auth, heap, call, response, stderr, stdout>>

\* close() on the generator (also what dropping the last reference to it does):
\* GeneratorExit is raised at the yield and unwinds the with block; a generator
\* that never ran just ends.
GeneratorClose ==
    /\ gen \in {"created", "suspended"}
    /\ gen' = "closed"
    /\ conn' = IF gen = "suspended" THEN with_exit(conn) ELSE conn
    /\ outcome' = Return(None)
    /\ UNCHANGED <<config, debug, auth, heap, call, response, stderr, stdout,
                   pending, yielded>>

\* Session.close(): a no-op.
Close ==
    /\ Idle
    /\ UNCHANGED vars

\* The caller has taken the result of the operation (the returned tuple, the
\* exception, or a generator that has ended) and moves on: the call frame and
\* the response are dropped.  Only the Session object lives on.
Discard ==
    /\ call.op # "none"
    /\ gen \notin {"created", "suspended"}
    /\ heap' = Frame(heap, NoDict)
    /\ call' = NoCall
    /\ response' = NoResponse
    /\ outcome' = Pending
    /\ stderr' = <<>>
    /\ stdout' = <<>>
    /\ NoStream
    /\ UNCHANGED <<config, debug, auth>>

Next ==
    \/ Close
    \/ Discard
    \/ Get
    \/ Post
    \/ Put
    \/ CombineHeaders
    \/ StreamRemote
    \/ GeneratorStart
    \/ GeneratorResume
    \/ GeneratorClose

Spec == Init /\ [][Next]_vars

\* ---------------------------------------------------------------- properties

HttpOps == {"get", "post", "put"}

\* get, post or put has run and has received a response.
Answered == call.op \in HttpOps /\ response # NoResponse

\* The stream_remote generator has run and has received a response.
Streamed == call.op = "stream_remote" /\ response # NoResponse

Printed(kind) == \E i \in 1..Len(stderr) : stderr[i].kind = kind

RECURSIVE Concat(_)
Concat(chunks) ==
    IF chunks = <<>> THEN <<>> ELSE Head(chunks) \o Concat(Tail(chunks))

IsPrefix(s, t) == Len(s) <= Len(t) /\ SubSeq(t, 1, Len(s)) = s

\* C1: whatever operations have run, with whatever per-call headers, the
\* Session's default header mapping is the one set at construction; the merged
\* mapping of a call carries the call's overrides.
C1_DefaultsNeverMutated ==
    /\ heap["self"] = DefaultHeaders
    /\ (call.op \in HttpOps /\ call.headers # NoDict) =>
           \A k \in DOMAIN call.headers : heap[call.h][k] = call.headers[k]

\* C1 witness: a get has overridden Accept for its own request.
C1_Witness ==
    /\ call.op = "get"
    /\ call.headers # NoDict
    /\ "Accept" \in DOMAIN call.headers
    /\ heap[call.h]["Accept"] = "application/json"
    /\ heap["self"]["Accept"] = "application/xml"

\* C2 (as claimed): once get/post/put classify the response as an error, the
\* failure line has been printed and the fail flag alone decides: fail=true
\* raises, fail=false returns (response, None), for every status.
C2_FailFlagDecides ==
    (Answered /\ classify(response.status_code, call.expect_status, call.ignore_404) = "error") =>
        /\ Printed("failed")
        /\ call.fail => outcome.kind = "raise"
        /\ ~call.fail => outcome = Return(None)

\* C3 (as claimed): every 401 response, in any operation and with any
\* arguments, has the credential hint with the configured username printed.
C3_HintOn401 ==
    (call.op \in HttpOps \cup {"stream_remote"} /\ response.status_code = 401) =>
        \E i \in 1..Len(stderr) :
            stderr[i].kind = "credentials" /\ stderr[i].user = config.username

\* C4 (as claimed): get/post/put on a 404: with ignore_404 the body returned is
\* not None; without it and with fail=true the call raises.
C4_Original ==
    (Answered /\ response.status_code = 404) =>
        /\ call.ignore_404 => (outcome.kind = "return" /\ outcome.body # None)
        /\ (~call.ignore_404 /\ call.fail) => outcome.kind = "raise"

\* C4 (amended): get/post/put on a 404: with ignore_404 the body returned is not
\* None, for every fail and expect_status; without ignore_404, with fail=true
\* and with an expect_status other than 404, the call raises.
C4_NotFound ==
    (Answered /\ response.status_code = 404) =>
        /\ call.ignore_404 => (outcome.kind = "return" /\ outcome.body # None)
        /\ (~call.ignore_404 /\ call.fail /\ call.expect_status # 404) =>
               outcome.kind = "raise"

\* C4 witness: an ignored 404 that is not the expected status came back with
\* its (empty) body, under fail=true.
C4_Witness ==
    /\ Answered
    /\ response.status_code = 404
    /\ call.ignore_404
    /\ call.fail
    /\ call.expect_status = 200
    /\ outcome = Return("")

\* C5: the streaming connection is open only while the generator is suspended
\* at its yield: once the generator has finished, raised or been closed the
\* connection is released, and every chunk is delivered on an open connection.
C5_ConnectionReleased ==
    /\ [](gen \in {"finished", "raised", "closed"} => conn # "open")
    /\ [](conn = "open" => gen = "suspended")
    /\ [][Len(yielded') > Len(yielded) => (conn # "closed" /\ conn' = "open")]_vars

\* C5 witness: the consumer abandoned the stream after one chunk, with body
\* still to come, and the connection is closed.
C5_Witness ==
    /\ gen = "closed"
    /\ Len(yielded) = 1
    /\ pending # <<>>
    /\ conn = "closed"

\* C6: a streamed 404 raises FileNotFoundError, yields no chunk whatever the
\* body is, and prints nothing on stderr.
C6_StreamNotFound ==
    (Streamed /\ response.status_code = 404) =>
        /\ gen = "raised"
        /\ outcome = Raise("FileNotFoundError")
        /\ yielded = <<>>
        /\ stderr = <<>>

\* C6 witness: a 404 with a non-empty body has raised FileNotFoundError.
C6_Witness ==
    /\ Streamed
    /\ response.status_code = 404
    /\ response.content # <<>>
    /\ outcome = Raise("FileNotFoundError")

\* C7 (as claimed): a streamed status >= 400 other than 404 prints the failure
\* line, always raises and yields no chunk; a status below 400 prints nothing.
C7_StreamErrorIsFatal ==
    /\ (Streamed /\ response.status_code >= 400 /\ response.status_code # 404) =>
           /\ Printed("failed")
           /\ gen = "raised"
           /\ outcome.kind = "raise"
           /\ yielded = <<>>
    /\ (Streamed /\ response.status_code < 400) => stderr = <<>>

\* C8: a streamed 200 yields the body in order: what has been yielded so far
\* is, concatenated, a prefix of the body, no chunk is empty, and when the
\* generator finishes the concatenation is the whole body and the connection
\* is closed.
C8_StreamDeliversBody ==
    (Streamed /\ response.status_code = 200) =>
        /\ IsPrefix(Concat(yielded), response.content)
        /\ Concat(yielded) \o pending = response.content
        /\ \A i \in 1..Len(yielded) : yielded[i] # <<>>
        /\ gen = "finished" => (Concat(yielded) = response.content /\ conn = "closed")

\* C8 witness: a 200 body of three bytes arrived in two chunks and the
\* generator has finished.
C8_Witness ==
    /\ Streamed
    /\ response.status_code = 200
    /\ gen = "finished"
    /\ Len(response.content) = 3
    /\ Len(yielded) = 2
    /\ conn = "closed"

\* C9: get/post/put whose response status equals expect_status return
\* (response, response.text), raise nothing and print nothing on stderr,
\* whatever the status, ignore_404 and fail are.
C9_ExpectedStatusReturns ==
    (Answered /\ response.status_code = call.expect_status) =>
        /\ outcome = Return(response.text)
        /\ stderr = <<>>

\* C9 witness: an expected 404 came back as a success with its body, with
\* ignore_404 off and fail on.
C9_Witness ==
    /\ Answered
    /\ response.status_code = 404
    /\ call.expect_status = 404
    /\ ~call.ignore_404
    /\ call.fail
    /\ outcome = Return("<data/>")

\* C10: _combine_headers(H) gives exactly the keys of H and of the defaults,
\* H's value where H has the key and the default value elsewhere; with H None
\* or empty it gives the defaults.
C10_MergeOverlay ==
    (call.op = "_combine_headers" /\ call.existing = None) =>
        LET H == IF call.headers = NoDict THEN <<>> ELSE call.headers
            R == heap[call.h]
        IN  /\ DOMAIN R = (DOMAIN H) \cup (DOMAIN DefaultHeaders)
            /\ \A k \in DOMAIN H : R[k] = H[k]
            /\ \A k \in (DOMAIN DefaultHeaders) \ (DOMAIN H) : R[k] = DefaultHeaders[k]
            /\ (DOMAIN H = {}) => R = DefaultHeaders

\* C10 witness: an overlay that replaces Accept and adds a key was merged.
C10_Witness ==
    /\ call.op = "_combine_headers"
    /\ call.existing = None
    /\ call.headers # NoDict
    /\ DOMAIN call.headers = {"Accept", "X-Nexus-UI"}
    /\ heap[call.h]["Accept"] = "application/json"
    /\ heap[call.h]["Content-Type"] = "application/xml"

====
